---------------------------- MODULE Spec2Model ----------------------------
(* A model of expense_tracker.py: the ExpenseTracker ledger (self.expenses, *)
(* self.categories), its data file, the menu loop of run() and the         *)
(* exception handlers of main().                                           *)
(*                                                                         *)
(* Python strings are tuples of one-character strings, so that strip(),    *)
(* title(), isdigit(), startswith(), the lexicographic <= of str and the   *)
(* parsers float() and strptime() are computed character by character.     *)
(* Python floats are [ty |-> "float", f |-> "fin" | "nan" | "inf", n],     *)
(* n counting hundredths; the inputs of the model have at most two         *)
(* decimals. A JSON text is the sequence of its tokens.                    *)
EXTENDS Integers, Sequences, FiniteSets, TLC

VARIABLES
    pc,            \* where the process is: "start", "menu", "except_kbd",
                   \* "except_exc", "exited" (main returned), "crashed"
    expenses,      \* self.expenses, a Python value
    categories,    \* self.categories, a list of str
    data_file,          \* the file self.data_file names: [exists, readable, toks]
    HAS_MATPLOTLIB, \* HAS_MATPLOTLIB
    stdoutOk,      \* FALSE once writes to sys.stdout raise OSError
    flushed,       \* a save_data attempt was made since the last change of self.expenses
    last           \* what the last handler did and was given (history)

vars == <<pc, expenses, categories, data_file, HAS_MATPLOTLIB, stdoutOk, flushed, last>>

----------------------------------------------------------------------------
(* Characters and str methods *)

Digits == <<"0", "1", "2", "3", "4", "5", "6", "7", "8", "9">>
Lowers == <<"a", "b", "c", "d", "e", "f", "g", "h", "i", "j", "k", "l", "m",
            "n", "o", "p", "q", "r", "s", "t", "u", "v", "w", "x", "y", "z">>
Uppers == <<"A", "B", "C", "D", "E", "F", "G", "H", "I", "J", "K", "L", "M",
            "N", "O", "P", "Q", "R", "S", "T", "U", "V", "W", "X", "Y", "Z">>

\* The characters of the model in code point order.
CodePoints == <<" ", "-", ".">> \o Digits \o <<":">> \o Uppers \o Lowers

Range(s) == {s[i] : i \in 1..Len(s)}

IndexOf(c, table) == CHOOSE i \in 1..Len(table) : table[i] = c

\* ord(c), up to an order-preserving renumbering
Ord(c) == IndexOf(c, CodePoints)

IsDigit(c) == c \in Range(Digits)
IsLower(c) == c \in Range(Lowers)
IsUpper(c) == c \in Range(Uppers)
IsAlpha(c) == IsLower(c) \/ IsUpper(c)
IsSpace(c) == c = " "

DigitVal(c) == IndexOf(c, Digits) - 1

ToUpper(c) == IF IsLower(c) THEN Uppers[IndexOf(c, Lowers)] ELSE c
ToLower(c) == IF IsUpper(c) THEN Lowers[IndexOf(c, Uppers)] ELSE c

\* str.isdigit(): non-empty and every character a digit
StrIsDigit(s) == Len(s) > 0 /\ \A i \in 1..Len(s) : IsDigit(s[i])

\* int(s) of a string of digits
RECURSIVE DigitsToInt(_)
DigitsToInt(s) ==
    IF Len(s) = 0 THEN 0
    ELSE 10 * DigitsToInt(SubSeq(s, 1, Len(s) - 1)) + DigitVal(s[Len(s)])

\* str.strip(): without leading and trailing whitespace
StrStrip(s) ==
    LET idx == {i \in 1..Len(s) : ~IsSpace(s[i])}
    IN  IF idx = {} THEN <<>>
        ELSE SubSeq(s, CHOOSE i \in idx : \A j \in idx : i <= j,
                       CHOOSE i \in idx : \A j \in idx : i >= j)

\* str.title(): a letter after a non-letter is upper-cased, any other lower-cased
StrTitle(s) ==
    [i \in 1..Len(s) |->
        IF i = 1 \/ ~IsAlpha(s[i - 1]) THEN ToUpper(s[i]) ELSE ToLower(s[i])]

\* str.startswith(prefix)
StartsWith(s, prefix) ==
    Len(prefix) <= Len(s) /\ SubSeq(s, 1, Len(prefix)) = prefix

\* a <= b on str: by the first differing code point, a prefix being smaller
StrLE(a, b) ==
    LET diff == {i \in 1..Len(a) : i > Len(b) \/ a[i] # b[i]}
    IN  IF diff = {} THEN TRUE
        ELSE LET i == CHOOSE k \in diff : \A j \in diff : k <= j
             IN  i <= Len(b) /\ Ord(a[i]) < Ord(b[i])

\* s.split(sep) for a one-character separator
RECURSIVE StrSplit(_, _)
StrSplit(s, sep) ==
    LET idx == {i \in 1..Len(s) : s[i] = sep}
    IN  IF idx = {} THEN <<s>>
        ELSE LET i == CHOOSE k \in idx : \A j \in idx : k <= j
             IN  <<SubSeq(s, 1, i - 1)>> \o StrSplit(SubSeq(s, i + 1, Len(s)), sep)

----------------------------------------------------------------------------
(* Python values *)

PyNone == [ty |-> "none"]
PyStr(s) == [ty |-> "str", s |-> s]
PyInt(n) == [ty |-> "int", n |-> n]
PyFloat(n) == [ty |-> "float", f |-> "fin", n |-> n]
PyNaN == [ty |-> "float", f |-> "nan", n |-> 0]
PyInf == [ty |-> "float", f |-> "inf", n |-> 0]
PyList(items) == [ty |-> "list", items |-> items]
\* a dict keeps its keys in insertion order
PyDict(keys, vals) == [ty |-> "dict", keys |-> keys, vals |-> vals]

IsNumber(v) == v.ty \in {"int", "float"}
IsFinite(v) == v.ty = "int" \/ (v.ty = "float" /\ v.f = "fin")

\* x <= 0 on a float: False for nan and for +inf, True for -inf
FloatLeZero(v) == (IsFinite(v) /\ v.n <= 0) \/ (v.ty = "float" /\ v.f = "ninf")

\* x + y on numbers whose finite values are not negative infinity
NumAdd(x, y) ==
    IF (x.ty = "float" /\ x.f = "nan") \/ (y.ty = "float" /\ y.f = "nan") THEN PyNaN
    ELSE IF (x.ty = "float" /\ x.f = "inf") \/ (y.ty = "float" /\ y.f = "inf") THEN PyInf
    ELSE IF x.ty = "int" /\ y.ty = "int" THEN PyInt(x.n + y.n)
    ELSE PyFloat(x.n + y.n)

HasKey(d, k) == \E i \in 1..Len(d.keys) : d.keys[i] = k
\* d[k] of a dict that has the key
DictGet(d, k) == d.vals[CHOOSE i \in 1..Len(d.keys) : d.keys[i] = k]
\* d[k] = v
DictSet(d, k, v) ==
    IF HasKey(d, k)
    THEN PyDict(d.keys, [i \in 1..Len(d.keys) |-> IF d.keys[i] = k THEN v ELSE d.vals[i]])
    ELSE PyDict(Append(d.keys, k), Append(d.vals, v))

\* bool(v) of a container or None
Truthy(v) ==
    CASE v.ty = "list" -> Len(v.items) > 0
      [] v.ty = "dict" -> Len(v.keys) > 0
      [] v.ty = "str" -> Len(v.s) > 0
      [] v.ty = "none" -> FALSE
      [] v.ty = "int" -> v.n # 0
      [] v.ty = "float" -> ~(v.f = "fin" /\ v.n = 0)

\* the elements a for loop over v visits (a dict yields its keys)
IterItems(v) ==
    CASE v.ty = "list" -> v.items
      [] v.ty = "dict" -> [i \in 1..Len(v.keys) |-> PyStr(v.keys[i])]
      [] v.ty = "str" -> [i \in 1..Len(v.s) |-> PyStr(<<v.s[i]>>)]

----------------------------------------------------------------------------
(* float(input()) *)

\* float(s) of a decimal literal [sign] digits [. digits], of nan and of
\* [sign] inf; anything else raises ValueError (ok = FALSE)
ParseFloat(raw) ==
    LET s == StrStrip(raw)
        signed == Len(s) > 0 /\ s[1] \in {"+", "-"}
        neg == Len(s) > 0 /\ s[1] = "-"
        body == IF signed THEN SubSeq(s, 2, Len(s)) ELSE s
        parts == StrSplit(body, ".")
        whole == parts[1]
        frac == IF Len(parts) = 2 THEN parts[2] ELSE <<>>
        isDecimal ==
            /\ Len(parts) <= 2
            /\ Len(whole) + Len(frac) > 0
            /\ \A i \in 1..Len(whole) : IsDigit(whole[i])
            /\ \A i \in 1..Len(frac) : IsDigit(frac[i])
        hundredths ==
            100 * DigitsToInt(whole)
            + (IF Len(frac) = 0 THEN 0
               ELSE IF Len(frac) = 1 THEN 10 * DigitVal(frac[1])
               ELSE 10 * DigitVal(frac[1]) + DigitVal(frac[2]))
    IN  IF body = <<"n", "a", "n">> THEN [ok |-> TRUE, v |-> PyNaN]
        ELSE IF body = <<"i", "n", "f">>
        THEN [ok |-> TRUE, v |-> IF neg THEN [ty |-> "float", f |-> "ninf", n |-> 0] ELSE PyInf]
        ELSE IF isDecimal
        THEN [ok |-> TRUE, v |-> PyFloat(IF neg THEN 0 - hundredths ELSE hundredths)]
        ELSE [ok |-> FALSE, v |-> PyNone]

----------------------------------------------------------------------------
(* datetime *)

IsLeap(y) == (y % 4 = 0 /\ y % 100 # 0) \/ y % 400 = 0

DaysInMonth(y, m) ==
    IF m = 2 THEN (IF IsLeap(y) THEN 29 ELSE 28)
    ELSE IF m \in {4, 6, 9, 11} THEN 30 ELSE 31

\* datetime(y, m, d) exists
IsCalendarDate(y, m, d) ==
    y \in 1..9999 /\ m \in 1..12 /\ d \in 1..DaysInMonth(y, m)

\* the month field of strptime's %m: 1[0-2] | 0[1-9] | [1-9]
IsMonthField(s) ==
    /\ StrIsDigit(s)
    /\ Len(s) \in {1, 2}
    /\ DigitsToInt(s) \in 1..12

\* strptime's %d: 3[01] | [12]\d | 0[1-9] | [1-9] | " "[1-9]
IsDayField(s) ==
    \/ StrIsDigit(s) /\ Len(s) \in {1, 2} /\ DigitsToInt(s) \in 1..31
    \/ Len(s) = 2 /\ s[1] = " " /\ IsDigit(s[2]) /\ s[2] # "0"

\* datetime.strptime(s, "%Y-%m-%d") returns (no ValueError): the whole of s
\* matches \d\d\d\d-%m-%d and names a date of the calendar
StrptimeOk(s) ==
    LET parts == StrSplit(s, "-")
    IN  /\ Len(parts) = 3
        /\ Len(parts[1]) = 4 /\ StrIsDigit(parts[1])
        /\ IsMonthField(parts[2])
        /\ IsDayField(parts[3])
        /\ IsCalendarDate(DigitsToInt(parts[1]), DigitsToInt(parts[2]),
                          DigitsToInt(StrStrip(parts[3])))

\* the decimal digits of n, zero-padded to width w
RECURSIVE ZeroPad(_, _)
ZeroPad(n, w) ==
    IF w = 0 THEN <<>> ELSE Append(ZeroPad(n \div 10, w - 1), Digits[(n % 10) + 1])

\* d.strftime("%Y-%m-%d") and d.strftime("%Y-%m")
StrftimeYmd(d) == ZeroPad(d.y, 4) \o <<"-">> \o ZeroPad(d.m, 2) \o <<"-">> \o ZeroPad(d.d, 2)
StrftimeYm(d) == ZeroPad(d.y, 4) \o <<"-">> \o ZeroPad(d.m, 2)

\* d - timedelta(days=k)
RECURSIVE MinusDays(_, _)
MinusDays(d, k) ==
    IF k = 0 THEN d
    ELSE LET prev ==
                 IF d.d > 1 THEN [d EXCEPT !.d = d.d - 1]
                 ELSE IF d.m > 1
                 THEN [d EXCEPT !.m = d.m - 1, !.d = DaysInMonth(d.y, d.m - 1)]
                 ELSE [d EXCEPT !.y = d.y - 1, !.m = 12, !.d = 31]
         IN  MinusDays(prev, k - 1)

\* d.isoformat() of a datetime
IsoFormat(d) == StrftimeYmd(d) \o <<"T">> \o d.t

----------------------------------------------------------------------------
(* json.dump and json.load over the tokens of the text *)

Punct(c) == [ty |-> "punct", s |-> <<c>>]
IsScalar(v) == v.ty \in {"none", "str", "int", "float"}

\* A float encoder that keeps whole units only.
JsonScalarRounded(v) ==
    IF v.ty = "float" /\ v.f = "fin" THEN <<PyFloat((v.n \div 100) * 100)>> ELSE <<v>>

\* the encoding of a scalar: the literal itself, floats by float.__repr__,
\* which json.load reads back to the same float
JsonScalar(v) == <<v>>

\* json.dump(v, f): a scalar is one token (null, a string, an integer, a
\* float literal, NaN or Infinity), a list and a dict are bracketed and
\* comma-separated
RECURSIVE JsonDump(_)
JsonDump(v) ==
    LET RECURSIVE Elems(_, _)
        Elems(items, i) ==
            IF i > Len(items) THEN <<>>
            ELSE (IF i > 1 THEN <<Punct(",")>> ELSE <<>>)
                 \o JsonDump(items[i]) \o Elems(items, i + 1)
        RECURSIVE Members(_, _)
        Members(d, i) ==
            IF i > Len(d.keys) THEN <<>>
            ELSE (IF i > 1 THEN <<Punct(",")>> ELSE <<>>)
                 \o <<PyStr(d.keys[i]), Punct(":")>> \o JsonDump(d.vals[i])
                 \o Members(d, i + 1)
    IN  CASE v.ty = "list" -> <<Punct("[")>> \o Elems(v.items, 1) \o <<Punct("]")>>
          [] v.ty = "dict" -> <<Punct("{")>> \o Members(v, 1) \o <<Punct("}")>>
          [] OTHER -> JsonScalar(v)

\* The decoder: each parser returns [ok, v, i], i the index after the value;
\* ok = FALSE is json.JSONDecodeError.
JsonFail == [ok |-> FALSE, v |-> PyNone, i |-> 0]
TokIs(toks, i, c) == i <= Len(toks) /\ toks[i] = Punct(c)

RECURSIVE JsonValue(_, _), JsonArray(_, _, _), JsonObject(_, _, _)
JsonValue(toks, i) ==
    IF i > Len(toks) THEN JsonFail
    ELSE IF TokIs(toks, i, "[") THEN
        (IF TokIs(toks, i + 1, "]")
         THEN [ok |-> TRUE, v |-> PyList(<<>>), i |-> i + 2]
         ELSE JsonArray(toks, i + 1, <<>>))
    ELSE IF TokIs(toks, i, "{") THEN
        (IF TokIs(toks, i + 1, "}")
         THEN [ok |-> TRUE, v |-> PyDict(<<>>, <<>>), i |-> i + 2]
         ELSE JsonObject(toks, i + 1, PyDict(<<>>, <<>>)))
    ELSE IF IsScalar(toks[i]) THEN [ok |-> TRUE, v |-> toks[i], i |-> i + 1]
    ELSE JsonFail

\* after "[" or ",": a value, then "," or "]"
JsonArray(toks, i, acc) ==
    LET r == JsonValue(toks, i)
    IN  IF ~r.ok THEN JsonFail
        ELSE IF TokIs(toks, r.i, "]")
        THEN [ok |-> TRUE, v |-> PyList(Append(acc, r.v)), i |-> r.i + 1]
        ELSE IF TokIs(toks, r.i, ",") THEN JsonArray(toks, r.i + 1, Append(acc, r.v))
        ELSE JsonFail

\* after "{" or ",": a string key, ":", a value, then "," or "}"
JsonObject(toks, i, acc) ==
    IF ~(i <= Len(toks) /\ toks[i].ty = "str" /\ TokIs(toks, i + 1, ":")) THEN JsonFail
    ELSE LET r == JsonValue(toks, i + 2)
         IN  IF ~r.ok THEN JsonFail
             ELSE IF TokIs(toks, r.i, "}")
             THEN [ok |-> TRUE, v |-> DictSet(acc, toks[i].s, r.v), i |-> r.i + 1]
             ELSE IF TokIs(toks, r.i, ",")
             THEN JsonObject(toks, r.i + 1, DictSet(acc, toks[i].s, r.v))
             ELSE JsonFail

\* json.load(f): one value and nothing after it
JsonLoad(toks) ==
    LET r == JsonValue(toks, 1)
    IN  IF r.ok /\ r.i = Len(toks) + 1 THEN [ok |-> TRUE, v |-> r.v]
        ELSE [ok |-> FALSE, v |-> PyNone]

----------------------------------------------------------------------------
(* ExpenseTracker: construction, load_data, save_data *)

SeedCategories ==
    << <<"F", "o", "o", "d">>,
       <<"T", "r", "a", "n", "s", "p", "o", "r", "t">>,
       <<"E", "n", "t", "e", "r", "t", "a", "i", "n", "m", "e", "n", "t">>,
       <<"B", "i", "l", "l", "s">>,
       <<"S", "h", "o", "p", "p", "i", "n", "g">>,
       <<"H", "e", "a", "l", "t", "h">>,
       <<"O", "t", "h", "e", "r">> >>

KAmount == <<"a", "m", "o", "u", "n", "t">>
KCategory == <<"c", "a", "t", "e", "g", "o", "r", "y">>
KDate == <<"d", "a", "t", "e">>
KDescription == <<"d", "e", "s", "c", "r", "i", "p", "t", "i", "o", "n">>
KTimestamp == <<"t", "i", "m", "e", "s", "t", "a", "m", "p">>

\* the expense dict of add_expense
Expense(amount, category, date, description, timestamp) ==
    PyDict(<<KAmount, KCategory, KDate, KDescription, KTimestamp>>,
           <<amount, PyStr(category), PyStr(date), PyStr(description), PyStr(timestamp)>>)

\* len(v) raises TypeError
HasNoLen(v) == v.ty \in {"none", "int", "float"}

\* load_data on the data file d, self.expenses being cur: what self.expenses
\* becomes, the message printed, and the exception that leaves the method
load_data(d, cur) ==
    IF ~d.exists THEN [exc |-> "", expenses |-> cur, msg |-> "new"]
    ELSE IF ~d.readable THEN [exc |-> "PermissionError", expenses |-> cur, msg |-> ""]
    ELSE LET r == JsonLoad(d.toks)
         IN  IF ~r.ok THEN [exc |-> "", expenses |-> PyList(<<>>), msg |-> "could_not_load"]
             ELSE IF HasNoLen(r.v) THEN [exc |-> "TypeError", expenses |-> r.v, msg |-> ""]
             ELSE [exc |-> "", expenses |-> r.v, msg |-> "loaded"]

\* What the file system does to one save_data: io.kind is "ok", "open_fail"
\* (open() raises) or "write_fail" (the write raises after io.k tokens).
\* open(..., 'w') has truncated the file by then.
WriteFile(d, toks, io) ==
    CASE io.kind = "ok" -> [d EXCEPT !.exists = TRUE, !.toks = toks]
      [] io.kind = "open_fail" -> d
      [] io.kind = "write_fail" -> [d EXCEPT !.exists = TRUE, !.toks = SubSeq(toks, 1, io.k)]

\* save_data: the file afterwards; every exception is caught and printed
save_data(d, v, io) == WriteFile(d, JsonDump(v), io)

\* the outcomes the file system may give a write of n tokens
SaveOutcomes(n) ==
    {[kind |-> "ok", k |-> n], [kind |-> "open_fail", k |-> 0]}
    \cup {[kind |-> "write_fail", k |-> k] : k \in {0, n - 1}}

----------------------------------------------------------------------------
(* input() *)

Line(s) == [k |-> "line", s |-> s]
Eof == [k |-> "eof", s |-> <<>>]
CtrlC == [k |-> "int", s |-> <<>>]

\* the exception input() raises on entry i of the lines typed ("" for none):
\* EOFError at the end of the stream, KeyboardInterrupt on an interrupt
InputExc(lines, i) ==
    IF i > Len(lines) \/ lines[i].k = "eof" THEN "EOFError"
    ELSE IF lines[i].k = "int" THEN "KeyboardInterrupt"
    ELSE ""

----------------------------------------------------------------------------
(* add_expense *)

\* the amount loop from entry i on: a ValueError of float() and an amount <= 0
\* are reported and the prompt repeats
RECURSIVE AmountLoop(_, _)
AmountLoop(lines, i) ==
    IF InputExc(lines, i) # ""
    THEN [exc |-> InputExc(lines, i), amount |-> PyNone, used |-> i]
    ELSE LET r == ParseFloat(lines[i].s)
         IN  IF ~r.ok THEN AmountLoop(lines, i + 1)
             ELSE IF FloatLeZero(r.v) THEN AmountLoop(lines, i + 1)
             ELSE [exc |-> "", amount |-> r.v, used |-> i]

\* A registration that appends without looking.
RegisterCategoryAlways(cats, category) == Append(cats, category)

\* if category not in self.categories: self.categories.append(category)
RegisterCategory(cats, category) ==
    IF category \in Range(cats) THEN cats ELSE Append(cats, category)

\* the category loop from entry i on
RECURSIVE CategoryLoop(_, _, _)
CategoryLoop(lines, i, cats) ==
    IF InputExc(lines, i) # ""
    THEN [exc |-> InputExc(lines, i), category |-> <<>>, cats |-> cats]
    ELSE LET choice == lines[i].s
             index == DigitsToInt(choice) - 1
             custom == StrTitle(StrStrip(choice))
         IN  IF StrIsDigit(choice)
             THEN (IF 0 <= index /\ index < Len(cats)
                   THEN [exc |-> "", category |-> cats[index + 1], cats |-> cats]
                   ELSE CategoryLoop(lines, i + 1, cats))
             ELSE IF Len(custom) > 0
             THEN [exc |-> "", category |-> custom, cats |-> RegisterCategory(cats, custom)]
             ELSE CategoryLoop(lines, i + 1, cats)

\* the date of the record for what was typed at the date prompt
DateFor(typed, now) ==
    LET date_input == StrStrip(typed)
    IN  IF Len(date_input) = 0 THEN StrftimeYmd(now)
        ELSE IF StrptimeOk(date_input) THEN date_input
        ELSE StrftimeYmd(now)

\* An insertion at the head of the list.
ListPrepend(v, x) == PyList(<<x>> \o v.items)

\* self.expenses.append(expense)
ListAppend(v, x) == PyList(Append(v.items, x))

\* add_expense after its two loops returned a and c, up to and including
\* the append
add_expense_append(inp, now, exps, cats, a, c) ==
    LET dateExc == InputExc(<<inp.date>>, 1)
        descExc == InputExc(<<inp.desc>>, 1)
        expense == Expense(a.amount, c.category, DateFor(inp.date.s, now),
                           StrStrip(inp.desc.s), IsoFormat(now))
        none == [exc |-> "", cats |-> cats, expenses |-> exps, appended |-> FALSE,
                 record |-> PyNone]
    IN  IF a.exc # "" THEN [none EXCEPT !.exc = a.exc]
        ELSE IF c.exc # "" THEN [none EXCEPT !.exc = c.exc]
        ELSE IF dateExc # "" THEN [none EXCEPT !.exc = dateExc, !.cats = c.cats]
        ELSE IF descExc # "" THEN [none EXCEPT !.exc = descExc, !.cats = c.cats]
        ELSE IF exps.ty # "list"
        THEN [none EXCEPT !.exc = "AttributeError", !.cats = c.cats, !.record = expense]
        ELSE [exc |-> "", cats |-> c.cats, expenses |-> ListAppend(exps, expense),
              appended |-> TRUE, record |-> expense]

\* add_expense up to and including the append: inp is what the user types
\* (amounts, cats: the entries of the two loops; date, desc: one entry each)
add_expense_result(inp, now, exps, cats) ==
    add_expense_append(inp, now, exps, cats,
                  AmountLoop(inp.amounts, 1), CategoryLoop(inp.cats, 1, cats))

----------------------------------------------------------------------------
(* Exceptions of the expressions the queries evaluate on a stored record *)

\* e[k]: KeyError on a dict without the key, TypeError on anything else
\* that is no dict
SubExc(e, k) ==
    IF e.ty = "dict" THEN (IF HasKey(e, k) THEN "" ELSE "KeyError") ELSE "TypeError"

\* f"{v:<12}": None, lists and dicts reject a format spec
AlignExc(v) == IF v.ty \in {"str", "int", "float"} THEN "" ELSE "TypeError"

\* f"{v:.2f}"
FixedExc(v) ==
    IF IsNumber(v) THEN "" ELSE IF v.ty = "str" THEN "ValueError" ELSE "TypeError"

\* the first exception of a sequence of outcomes, "" when there is none
FirstExc(excs) ==
    LET idx == {i \in 1..Len(excs) : excs[i] # ""}
    IN  IF idx = {} THEN "" ELSE excs[CHOOSE i \in idx : \A j \in idx : i <= j]

\* sum(exp['amount'] for exp in items)
SumAmounts(items) ==
    LET excOf(e) ==
            IF SubExc(e, KAmount) # "" THEN SubExc(e, KAmount)
            ELSE IF ~IsNumber(DictGet(e, KAmount)) THEN "TypeError" ELSE ""
        exc == FirstExc([i \in 1..Len(items) |-> excOf(items[i])])
        RECURSIVE Fold(_)
        Fold(i) == IF i = 0 THEN PyInt(0) ELSE NumAdd(Fold(i - 1), DictGet(items[i], KAmount))
    IN  IF exc # "" THEN [exc |-> exc, total |-> PyNone]
        ELSE [exc |-> "", total |-> Fold(Len(items))]

----------------------------------------------------------------------------
(* view_expenses and display_expenses_table *)

\* start_date <= exp['date'] <= end_date raises: no 'date', or a date that
\* is no str
DateCmpExc(e) ==
    IF SubExc(e, KDate) # "" THEN SubExc(e, KDate)
    ELSE IF DictGet(e, KDate).ty # "str" THEN "TypeError" ELSE ""

InDateRange(e, start, end) ==
    StrLE(start, DictGet(e, KDate).s) /\ StrLE(DictGet(e, KDate).s, end)

\* choice '3': the comprehension, and the bare except that keeps the copy of
\* all expenses when it raises
FilterByDateRange(items, start, end) ==
    LET Keep(e) == InDateRange(e, start, end)
    IN  IF \E i \in 1..Len(items) : DateCmpExc(items[i]) # ""
        THEN [fallback |-> TRUE, rows |-> items]
        ELSE [fallback |-> FALSE, rows |-> SelectSeq(items, Keep)]

\* choice '4': exp['date'].startswith(month), under the same bare except
FilterByMonth(items, month) ==
    LET Keep(e) == StartsWith(DictGet(e, KDate).s, month)
    IN  IF \E i \in 1..Len(items) : DateCmpExc(items[i]) # ""
        THEN [fallback |-> TRUE, rows |-> items]
        ELSE [fallback |-> FALSE, rows |-> SelectSeq(items, Keep)]

\* int(s) - 1 for choice '2'; ok = FALSE is ValueError
ParseIndex(raw) ==
    LET s == StrStrip(raw)
        signed == Len(s) > 0 /\ s[1] \in {"+", "-"}
        body == IF signed THEN SubSeq(s, 2, Len(s)) ELSE s
        n == DigitsToInt(body)
    IN  IF StrIsDigit(body)
        THEN [ok |-> TRUE, index |-> (IF s[1] = "-" THEN 0 - n ELSE n) - 1]
        ELSE [ok |-> FALSE, index |-> 0]

\* set(exp['category'] for exp in items) raises: no 'category', or one that
\* cannot be hashed
CategorySetExc(items) ==
    LET excOf(e) ==
            IF SubExc(e, KCategory) # "" THEN SubExc(e, KCategory)
            ELSE IF DictGet(e, KCategory).ty \in {"list", "dict"} THEN "TypeError" ELSE ""
    IN  FirstExc([i \in 1..Len(items) |-> excOf(items[i])])

CategoriesInData(items) == {DictGet(items[i], KCategory) : i \in 1..Len(items)}

FilterByCategory(items, selected) ==
    LET Keep(e) == DictGet(e, KCategory) = selected
    IN  SelectSeq(items, Keep)

\* sorted(rows, key=lambda x: x['date']) on str keys: ascending and stable
RECURSIVE SortByDate(_)
SortByDate(rows) ==
    IF Len(rows) <= 1 THEN rows
    ELSE LET x == rows[Len(rows)]
             rest == SortByDate(SubSeq(rows, 1, Len(rows) - 1))
             key(e) == DictGet(e, KDate).s
             \* x goes after every element whose key is <= its own
             after == {i \in 1..Len(rest) : StrLE(key(rest[i]), key(x))}
             pos == IF after = {} THEN 0 ELSE CHOOSE i \in after : \A j \in after : i >= j
         IN  SubSeq(rest, 1, pos) \o <<x>> \o SubSeq(rest, pos + 1, Len(rest))

\* the exception sorted() raises: a key that cannot be read, or keys of two
\* or more rows that are not all str (the data files of the model hold str
\* and null dates)
SortExc(rows) ==
    LET keyExc == FirstExc([i \in 1..Len(rows) |-> SubExc(rows[i], KDate)])
    IN  IF keyExc # "" THEN keyExc
        ELSE IF Len(rows) >= 2 /\ \E i \in 1..Len(rows) : DictGet(rows[i], KDate).ty # "str"
        THEN "TypeError"
        ELSE ""

\* the exception printing one row raises
RowExc(e) ==
    IF SubExc(e, KDescription) # "" THEN SubExc(e, KDescription)
    ELSE IF HasNoLen(DictGet(e, KDescription)) THEN "TypeError"
    ELSE IF AlignExc(DictGet(e, KDate)) # "" THEN AlignExc(DictGet(e, KDate))
    ELSE IF SubExc(e, KCategory) # "" THEN SubExc(e, KCategory)
    ELSE IF AlignExc(DictGet(e, KCategory)) # "" THEN AlignExc(DictGet(e, KCategory))
    ELSE IF SubExc(e, KAmount) # "" THEN SubExc(e, KAmount)
    ELSE FixedExc(DictGet(e, KAmount))

\* display_expenses_table(rows): the rows in the order printed and the total
display_expenses_table(rows) ==
    IF Len(rows) = 0 THEN [exc |-> "", rows |-> <<>>, total |-> PyInt(0)]
    ELSE IF SortExc(rows) # "" THEN [exc |-> SortExc(rows), rows |-> <<>>, total |-> PyNone]
    ELSE LET sorted == IF Len(rows) = 1 THEN rows ELSE SortByDate(rows)
             exc == FirstExc([i \in 1..Len(sorted) |-> RowExc(sorted[i])])
         IN  IF exc # "" THEN [exc |-> exc, rows |-> <<>>, total |-> PyNone]
             ELSE [exc |-> "", rows |-> sorted, total |-> SumAmounts(sorted).total]

----------------------------------------------------------------------------
(* calculate_totals and show_category_breakdown *)

\* exp['date'].startswith(month) outside any try
StartsWithExc(e) ==
    IF SubExc(e, KDate) # "" THEN SubExc(e, KDate)
    ELSE IF DictGet(e, KDate).ty # "str" THEN "AttributeError" ELSE ""

\* get_monthly_total for the month typed
get_monthly_total(items, typed, now) ==
    LET month == IF Len(StrStrip(typed)) = 0 THEN StrftimeYm(now) ELSE StrStrip(typed)
        exc == FirstExc([i \in 1..Len(items) |-> StartsWithExc(items[i])])
        Keep(e) == StartsWith(DictGet(e, KDate).s, month)
        rows == SelectSeq(items, Keep)
    IN  IF exc # "" THEN [exc |-> exc, total |-> PyNone, count |-> 0]
        ELSE [exc |-> SumAmounts(rows).exc, total |-> SumAmounts(rows).total,
              count |-> Len(rows)]

\* get_weekly_total: week_ago <= date <= today, on the strings
get_weekly_total(items, now) ==
    LET week_ago == StrftimeYmd(MinusDays(now, 7))
        today_str == StrftimeYmd(now)
        exc == FirstExc([i \in 1..Len(items) |-> DateCmpExc(items[i])])
        Keep(e) == InDateRange(e, week_ago, today_str)
        rows == SelectSeq(items, Keep)
    IN  IF exc # "" THEN [exc |-> exc, total |-> PyNone, count |-> 0]
        ELSE [exc |-> SumAmounts(rows).exc, total |-> SumAmounts(rows).total,
              count |-> Len(rows)]

\* category_totals[expense['category']] += expense['amount'] raises
AccumulateExc(e) ==
    IF SubExc(e, KCategory) # "" THEN SubExc(e, KCategory)
    ELSE IF DictGet(e, KCategory).ty \in {"list", "dict"} THEN "TypeError"
    ELSE IF SubExc(e, KAmount) # "" THEN SubExc(e, KAmount)
    ELSE IF ~IsNumber(DictGet(e, KAmount)) THEN "TypeError"
    ELSE ""

\* the defaultdict(float) after the loop over the first n items: a sequence
\* of [cat, total] in the order the categories were first met
RECURSIVE category_totals(_, _)
category_totals(items, n) ==
    IF n = 0 THEN <<>>
    ELSE LET acc == category_totals(items, n - 1)
             cat == DictGet(items[n], KCategory)
             amount == DictGet(items[n], KAmount)
         IN  IF \E i \in 1..Len(acc) : acc[i].cat = cat
             THEN [i \in 1..Len(acc) |->
                      IF acc[i].cat = cat
                      THEN [acc[i] EXCEPT !.total = NumAdd(acc[i].total, amount)]
                      ELSE acc[i]]
             ELSE Append(acc, [cat |-> cat, total |-> NumAdd(PyFloat(0), amount)])

\* sum(category_totals.values())
RECURSIVE SumTotals(_, _)
SumTotals(groups, n) ==
    IF n = 0 THEN PyInt(0) ELSE NumAdd(SumTotals(groups, n - 1), groups[n].total)

\* (amount / total_spending) * 100, in hundredths of a percent;
\* exc = "ZeroDivisionError" when total_spending is 0
Percentage(amount, total) ==
    IF IsFinite(total) /\ total.n = 0 THEN [exc |-> "ZeroDivisionError", v |-> PyNone]
    ELSE IF ~IsFinite(total) /\ ~IsFinite(amount) THEN [exc |-> "", v |-> PyNaN]
    ELSE IF ~IsFinite(amount) THEN [exc |-> "", v |-> amount]
    ELSE IF ~IsFinite(total)
    THEN [exc |-> "", v |-> IF total.f = "nan" THEN PyNaN ELSE PyFloat(0)]
    ELSE [exc |-> "", v |-> PyFloat((amount.n * 10000) \div total.n)]

\* show_category_breakdown on self.expenses: the groups, the grand total and
\* each group's percentage (the order of the printed lines is not recorded)
breakdown_result(exps) ==
    LET items == IterItems(exps)
        accExc == FirstExc([i \in 1..Len(items) |-> AccumulateExc(items[i])])
        groups == category_totals(items, Len(items))
        total == SumTotals(groups, Len(groups))
        pcts == [i \in 1..Len(groups) |-> Percentage(groups[i].total, total)]
        lineExc(i) == IF pcts[i].exc # "" THEN pcts[i].exc ELSE AlignExc(groups[i].cat)
        exc == FirstExc([i \in 1..Len(groups) |-> lineExc(i)])
        none == [exc |-> "", groups |-> <<>>, total |-> PyNone, pcts |-> <<>>]
    IN  IF accExc # "" THEN [none EXCEPT !.exc = accExc]
        ELSE IF Len(groups) = 0 THEN none
        ELSE IF exc # "" THEN [none EXCEPT !.exc = exc, !.groups = groups, !.total = total]
        ELSE [exc |-> "", groups |-> groups, total |-> total,
              pcts |-> [i \in 1..Len(groups) |-> pcts[i].v]]

----------------------------------------------------------------------------
(* export_csv and plot_chart *)

\* export_csv: everything after the filename prompt runs under
\* try/except Exception; csvOk is whether the csv file could be written
export_csv_result(exps, csvOk) ==
    LET items == IterItems(exps)
        rowExc(e) ==
            FirstExc(<<SubExc(e, KDate), SubExc(e, KCategory), SubExc(e, KAmount),
                       SubExc(e, KDescription)>>)
        exc == FirstExc([i \in 1..Len(items) |-> rowExc(items[i])])
    IN  IF ~csvOk \/ exc # "" THEN [msg |-> "error_exporting", count |-> 0]
        ELSE [msg |-> "exported", count |-> Len(items)]

\* plot_chart: the loop that builds category_totals is outside any try
plot_chart_result(exps) ==
    LET items == IterItems(exps)
        exc == FirstExc([i \in 1..Len(items) |-> AccumulateExc(items[i])])
    IN  IF exc # "" THEN [exc |-> exc, groups |-> <<>>]
        ELSE [exc |-> "", groups |-> category_totals(items, Len(items))]

----------------------------------------------------------------------------
(* The bounds and the inputs of the model *)

\* the longest record list an add_expense is started on is one shorter
MaxExpenses == 2

\* the strings of the data files and of what the user types
d_2024_01 == <<"2", "0", "2", "4", "-", "0", "1">>
d_2024_01_01 == <<"2", "0", "2", "4", "-", "0", "1", "-", "0", "1">>
d_2024_01_05 == <<"2", "0", "2", "4", "-", "0", "1", "-", "0", "5">>
d_2024_01_20 == <<"2", "0", "2", "4", "-", "0", "1", "-", "2", "0">>
d_2024_01_31 == <<"2", "0", "2", "4", "-", "0", "1", "-", "3", "1">>
d_2024_02_01 == <<"2", "0", "2", "4", "-", "0", "2", "-", "0", "1">>
d_2024_12_31 == <<"2", "0", "2", "4", "-", "1", "2", "-", "3", "1">>
d_2024_13_45 == <<"2", "0", "2", "4", "-", "1", "3", "-", "4", "5">>
d_2024_1_5 == <<"2", "0", "2", "4", "-", "1", "-", "5">>
s_0 == <<"0">>
s_1 == <<"1">>
s_12_50 == <<"1", "2", ".", "5">>
s_2 == <<"2">>
s_3 == <<"3">>
s_4 == <<"4">>
s_40 == <<"4", "0">>
s_5 == <<"5">>
s_6 == <<"6">>
s_7_25 == <<"7", ".", "2", "5">>
s_7_padded == <<" ", "7", " ">>
s_9 == <<"9">>
s_99 == <<"9", "9">>
s_Bills == <<"B", "i", "l", "l", "s">>
s_Food == <<"F", "o", "o", "d">>
s_abc == <<"a", "b", "c">>
s_empty == <<>>
s_food == <<"f", "o", "o", "d">>
s_gym == <<"g", "y", "m">>
s_gym_padded == <<" ", "g", "y", "m", " ">>
s_lunch == <<"l", "u", "n", "c", "h">>
s_minus_5 == <<"-", "5">>
s_nan == <<"n", "a", "n">>
s_out == <<"o", "u", "t">>
s_rent == <<"r", "e", "n", "t">>
s_tea_padded == <<" ", "t", "e", "a", " ">>
s_x == <<"x">>
s_yoga == <<"y", "o", "g", "a">>
t_10_30_00 == <<"1", "0", ":", "3", "0", ":", "0", "0">>
ts_2024_01_20 ==
    <<"2", "0", "2", "4", "-", "0", "1", "-", "2", "0", "T", "0", "9", ":", "0", "0", ":",
      "0", "0">>

\* datetime.now()
Nows == {[y |-> 2024, m |-> 3, d |-> 5, t |-> t_10_30_00]}

GoodRecord ==
    Expense(PyFloat(4000), s_Bills, d_2024_01_20, s_rent, ts_2024_01_20)
ZeroRecord ==
    Expense(PyFloat(0), s_Food, d_2024_01_05, <<>>, ts_2024_01_20)
NullDateRecord ==
    DictSet(GoodRecord, KDate, PyNone)

\* the data file when the program starts
MissingFile == [exists |-> FALSE, readable |-> TRUE, toks |-> <<>>]
UnreadableFile == [exists |-> TRUE, readable |-> FALSE, toks |-> <<>>]
FileOf(toks) == [exists |-> TRUE, readable |-> TRUE, toks |-> toks]

\* absent, unreadable, cut short, a number, an object, and lists of records
\* (one as written by the program, two edited by hand)
InitialDisks ==
    {MissingFile,
     UnreadableFile,
     FileOf(<<Punct("["), Punct("{")>>),
     FileOf(<<PyInt(5)>>),
     FileOf(JsonDump(PyDict(<<>>, <<>>))),
     FileOf(JsonDump(PyList(<<GoodRecord>>))),
     FileOf(JsonDump(PyList(<<ZeroRecord>>))),
     FileOf(JsonDump(PyList(<<NullDateRecord>>)))}

\* the installations the program starts in: every data file with matplotlib
\* installed, and the program's own file without it
InitialEnvs ==
    {[data_file |-> d, hm |-> TRUE] : d \in InitialDisks}
    \cup {[data_file |-> FileOf(JsonDump(PyList(<<GoodRecord>>))), hm |-> FALSE]}

\* what the user types into one add_expense
AddInputs ==
    {[amounts |-> <<Line(s_12_50)>>, cats |-> <<Line(s_1)>>,
      date |-> Line(d_2024_01_05), desc |-> Line(s_lunch)],
     [amounts |-> <<Line(s_abc), Line(s_minus_5), Line(s_0), Line(s_40)>>,
      cats |-> <<Line(s_99), Line(s_empty), Line(s_gym)>>,
      date |-> Line(s_empty), desc |-> Line(s_empty)],
     [amounts |-> <<Line(s_nan)>>, cats |-> <<Line(s_gym_padded)>>,
      date |-> Line(d_2024_13_45), desc |-> Line(s_empty)],
     [amounts |-> <<Line(s_7_25)>>, cats |-> <<Line(s_food)>>,
      date |-> Line(d_2024_1_5), desc |-> Line(s_tea_padded)],
     [amounts |-> <<Line(s_abc)>>, cats |-> <<>>, date |-> Eof, desc |-> Eof],
     [amounts |-> <<Line(s_5)>>, cats |-> <<CtrlC>>, date |-> Eof, desc |-> Eof],
     [amounts |-> <<Line(s_5)>>, cats |-> <<Line(s_yoga)>>, date |-> CtrlC, desc |-> Eof]}

\* what the user types at the main menu
MenuChoices ==
    {Line(s_1), Line(s_2), Line(s_3), Line(s_4), Line(s_5), Line(s_6), Line(s_7_padded),
     Line(s_9)}

\* what the user types into one view_expenses: the option, then its prompts
ViewInputs ==
    {[choice |-> Line(s_1), a |-> Eof, b |-> Eof],
     [choice |-> Line(s_2), a |-> Line(s_1), b |-> Eof],
     [choice |-> Line(s_2), a |-> Line(s_0), b |-> Eof],
     [choice |-> Line(s_2), a |-> Line(s_x), b |-> Eof],
     [choice |-> Line(s_2), a |-> Line(s_9), b |-> Eof],
     [choice |-> Line(s_3), a |-> Line(d_2024_01_01), b |-> Line(d_2024_01_31)],
     [choice |-> Line(s_3), a |-> Line(d_2024_02_01), b |-> Line(d_2024_12_31)],
     [choice |-> Line(s_4), a |-> Line(d_2024_01), b |-> Eof],
     [choice |-> CtrlC, a |-> Eof, b |-> Eof]}

\* what the user types into one calculate_totals
TotalsInputs ==
    {[choice |-> Line(s_1), a |-> Line(s_empty)], [choice |-> Line(s_1), a |-> Line(d_2024_01)],
     [choice |-> Line(s_2), a |-> Eof], [choice |-> Line(s_3), a |-> Eof],
     [choice |-> Line(s_4), a |-> Eof], [choice |-> Line(s_9), a |-> Eof],
     [choice |-> Eof, a |-> Eof]}

\* what the user types into one export_csv
ExportInputs == {Line(s_empty), Line(s_out), CtrlC}

----------------------------------------------------------------------------
(* main() and run() *)

\* run(): the method the stripped menu choice selects
Dispatch(typed, hm) ==
    LET choice == StrStrip(typed)
        max_option == IF hm THEN <<"7">> ELSE <<"6">>
    IN  IF choice = <<"1">> THEN "add"
        ELSE IF choice = <<"2">> THEN "view"
        ELSE IF choice = <<"3">> THEN "totals"
        ELSE IF choice = <<"4">> THEN "breakdown"
        ELSE IF choice = <<"5">> THEN "export"
        ELSE IF choice = <<"6">> /\ hm THEN "plot"
        ELSE IF choice = max_option THEN "exit"
        ELSE "invalid"

Chosen(op) == \E typed \in MenuChoices : Dispatch(typed.s, HAS_MATPLOTLIB) = op

\* where an exception that leaves run() takes main()
PcAfter(exc) ==
    IF exc = "" THEN "menu"
    ELSE IF exc = "KeyboardInterrupt" THEN "except_kbd"
    ELSE "except_exc"

NoSave == [kind |-> "none", k |-> 0]

\* KeyboardInterrupt raised before save_data is entered
Interrupted == [kind |-> "interrupted", k |-> 0]

Init ==
    /\ pc = "start"
    /\ expenses = PyList(<<>>)
    /\ categories = <<>>
    /\ \E env \in InitialEnvs : data_file = env.data_file /\ HAS_MATPLOTLIB = env.hm
    /\ stdoutOk = TRUE
    /\ flushed = FALSE
    /\ last = [op |-> "none", exc |-> ""]

\* tracker = ExpenseTracker(): __init__ and load_data, outside main's try
ExpenseTracker ==
    /\ pc = "start"
    /\ LET r == load_data(data_file, PyList(<<>>))
       IN  /\ expenses' = r.expenses
           /\ pc' = IF r.exc = "" THEN "menu" ELSE "crashed"
           /\ last' = [op |-> "init", exc |-> r.exc, msg |-> r.msg]
    /\ categories' = SeedCategories
    /\ flushed' = FALSE
    /\ UNCHANGED <<data_file, HAS_MATPLOTLIB, stdoutOk>>

\* the end of add_expense: r is what it did up to the append; save_data
\* follows an append, unless Ctrl-C arrives between the two statements
add_expense_save(inp, now, r) ==
    \E io \in (IF r.appended THEN SaveOutcomes(Len(JsonDump(r.expenses))) \cup {Interrupted}
               ELSE {NoSave}) :
      /\ expenses' = r.expenses
      /\ categories' = r.cats
      /\ data_file' = IF r.appended /\ io # Interrupted
                      THEN save_data(data_file, r.expenses, io) ELSE data_file
      /\ pc' = PcAfter(IF io = Interrupted THEN "KeyboardInterrupt" ELSE r.exc)
      /\ flushed' = IF r.appended THEN io # Interrupted ELSE flushed
      /\ last' = [op |-> "add",
                  exc |-> (IF io = Interrupted THEN "KeyboardInterrupt" ELSE r.exc),
                  inp |-> inp, now |-> now,
                  appended |-> r.appended, record |-> r.record, save |-> io.kind]

\* choice '1': add_expense
add_expense ==
    /\ pc = "menu"
    /\ Chosen("add")
    /\ expenses.ty = "list" => Len(expenses.items) < MaxExpenses
    /\ \E inp \in AddInputs, now \in Nows :
         add_expense_save(inp, now, add_expense_result(inp, now, expenses, categories))
    /\ UNCHANGED <<HAS_MATPLOTLIB, stdoutOk>>

\* view_expenses for what the user types; for choice '2' the list made of a
\* set has no fixed order, so a valid index selects any category of the data
view_expenses_result(inp, exps) ==
    LET items == IterItems(exps)
        none == [exc |-> "", fallback |-> FALSE, shown |-> <<>>, table |-> <<>>]
        shown(rows, fb, table) ==
            [exc |-> table.exc, fallback |-> fb, shown |-> rows, table |-> table.rows]
        show(rows, fb) == {shown(rows, fb, display_expenses_table(rows))}
        idx == ParseIndex(inp.a.s)
        n == Cardinality(CategoriesInData(items))
        byRange == FilterByDateRange(items, inp.a.s, inp.b.s)
        byMonth == FilterByMonth(items, inp.a.s)
    IN  IF ~Truthy(exps) THEN {none}
        ELSE IF InputExc(<<inp.choice>>, 1) # ""
        THEN {[none EXCEPT !.exc = InputExc(<<inp.choice>>, 1)]}
        ELSE IF inp.choice.s = <<"2">> THEN
            (IF CategorySetExc(items) # "" THEN {[none EXCEPT !.exc = CategorySetExc(items)]}
             ELSE IF InputExc(<<inp.a>>, 1) # ""
             THEN {[none EXCEPT !.exc = InputExc(<<inp.a>>, 1)]}
             ELSE IF ~idx.ok \/ idx.index >= n \/ idx.index < 0 - n THEN show(items, TRUE)
             ELSE UNION {show(FilterByCategory(items, c), FALSE) : c \in CategoriesInData(items)})
        ELSE IF inp.choice.s = <<"3">> THEN
            (IF InputExc(<<inp.a, inp.b>>, 1) # ""
             THEN {[none EXCEPT !.exc = InputExc(<<inp.a, inp.b>>, 1)]}
             ELSE IF InputExc(<<inp.a, inp.b>>, 2) # ""
             THEN {[none EXCEPT !.exc = InputExc(<<inp.a, inp.b>>, 2)]}
             ELSE show(byRange.rows, byRange.fallback))
        ELSE IF inp.choice.s = <<"4">> THEN
            (IF InputExc(<<inp.a>>, 1) # "" THEN {[none EXCEPT !.exc = InputExc(<<inp.a>>, 1)]}
             ELSE show(byMonth.rows, byMonth.fallback))
        ELSE show(items, FALSE)

\* choice '2': view_expenses
view_expenses ==
    /\ pc = "menu"
    /\ Chosen("view")
    /\ \E inp \in ViewInputs : \E r \in view_expenses_result(inp, expenses) :
         /\ pc' = PcAfter(r.exc)
         /\ last' = [op |-> "view", exc |-> r.exc, inp |-> inp, fallback |-> r.fallback,
                     shown |-> r.shown, table |-> r.table]
    /\ UNCHANGED <<expenses, categories, data_file, HAS_MATPLOTLIB, stdoutOk, flushed>>

\* calculate_totals for what the user types
calculate_totals_result(inp, now, exps) ==
    LET items == IterItems(exps)
        none == [exc |-> "", total |-> PyNone]
        monthly == get_monthly_total(items, inp.a.s, now)
        weekly == get_weekly_total(items, now)
        all == SumAmounts(items)
    IN  IF ~Truthy(exps) THEN none
        ELSE IF InputExc(<<inp.choice>>, 1) # ""
        THEN [none EXCEPT !.exc = InputExc(<<inp.choice>>, 1)]
        ELSE IF inp.choice.s = <<"1">> THEN
            (IF InputExc(<<inp.a>>, 1) # "" THEN [none EXCEPT !.exc = InputExc(<<inp.a>>, 1)]
             ELSE [exc |-> monthly.exc, total |-> monthly.total])
        ELSE IF inp.choice.s = <<"2">> THEN [exc |-> weekly.exc, total |-> weekly.total]
        ELSE IF inp.choice.s = <<"3">>
        THEN [exc |-> breakdown_result(exps).exc, total |-> breakdown_result(exps).total]
        ELSE IF inp.choice.s = <<"4">>
        THEN [exc |-> (IF all.exc # "" THEN all.exc ELSE FixedExc(all.total)),
              total |-> all.total]
        ELSE none

\* choice '3': calculate_totals
calculate_totals ==
    /\ pc = "menu"
    /\ Chosen("totals")
    /\ \E inp \in TotalsInputs, now \in Nows :
         LET r == calculate_totals_result(inp, now, expenses)
         IN  /\ pc' = PcAfter(r.exc)
             /\ last' = [op |-> "totals", exc |-> r.exc, inp |-> inp, total |-> r.total]
    /\ UNCHANGED <<expenses, categories, data_file, HAS_MATPLOTLIB, stdoutOk, flushed>>

\* choice '4': show_category_breakdown
show_category_breakdown ==
    /\ pc = "menu"
    /\ Chosen("breakdown")
    /\ LET r == breakdown_result(expenses)
       IN  /\ pc' = PcAfter(r.exc)
           /\ last' = [op |-> "breakdown", exc |-> r.exc, groups |-> r.groups,
                       total |-> r.total, pcts |-> r.pcts]
    /\ UNCHANGED <<expenses, categories, data_file, HAS_MATPLOTLIB, stdoutOk, flushed>>

\* choice '5': export_csv
export_csv ==
    /\ pc = "menu"
    /\ Chosen("export")
    /\ \E typed \in ExportInputs, csvOk \in BOOLEAN :
         LET exc == IF Truthy(expenses) THEN InputExc(<<typed>>, 1) ELSE ""
             r == export_csv_result(expenses, csvOk)
         IN  /\ pc' = PcAfter(exc)
             /\ last' = [op |-> "export", exc |-> exc,
                         msg |-> IF ~Truthy(expenses) THEN "no_expenses"
                                 ELSE IF exc # "" THEN "" ELSE r.msg]
    /\ UNCHANGED <<expenses, categories, data_file, HAS_MATPLOTLIB, stdoutOk, flushed>>

\* choice '6' with matplotlib: plot_chart
plot_chart ==
    /\ pc = "menu"
    /\ Chosen("plot")
    /\ LET r == plot_chart_result(expenses)
           exc == IF Truthy(expenses) THEN r.exc ELSE ""
       IN  /\ pc' = PcAfter(exc)
           /\ last' = [op |-> "plot", exc |-> exc]
    /\ UNCHANGED <<expenses, categories, data_file, HAS_MATPLOTLIB, stdoutOk, flushed>>

\* the last option: save_data and break; run() and main() return
ExitOption ==
    /\ pc = "menu"
    /\ Chosen("exit")
    /\ \E io \in SaveOutcomes(Len(JsonDump(expenses))) :
         /\ data_file' = save_data(data_file, expenses, io)
         /\ last' = [op |-> "exit", exc |-> "", save |-> io.kind]
    /\ pc' = "exited"
    /\ flushed' = TRUE
    /\ UNCHANGED <<expenses, categories, HAS_MATPLOTLIB, stdoutOk>>

\* any other choice: "Invalid option"
InvalidOption ==
    /\ pc = "menu"
    /\ Chosen("invalid")
    /\ last' = [op |-> "invalid", exc |-> ""]
    /\ UNCHANGED <<pc, expenses, categories, data_file, HAS_MATPLOTLIB, stdoutOk, flushed>>

\* input() of the menu choice raises: end of input or an interrupt
MenuInputRaises ==
    /\ pc = "menu"
    /\ \E typed \in {Eof, CtrlC} :
         /\ pc' = PcAfter(InputExc(<<typed>>, 1))
         /\ last' = [op |-> "menu", exc |-> InputExc(<<typed>>, 1)]
    /\ UNCHANGED <<expenses, categories, data_file, HAS_MATPLOTLIB, stdoutOk, flushed>>

\* show_menu's print raises OSError: sys.stdout is gone (a closed pipe or
\* terminal) and stays so
MenuPrintFails ==
    /\ pc = "menu"
    /\ stdoutOk
    /\ stdoutOk' = FALSE
    /\ pc' = "except_exc"
    /\ last' = [op |-> "menu", exc |-> "OSError"]
    /\ UNCHANGED <<expenses, categories, data_file, HAS_MATPLOTLIB, flushed>>

\* main()'s except clauses: both print first and call save_data after. A
\* print that raises (OSError when sys.stdout is gone, KeyboardInterrupt at a
\* second Ctrl-C) leaves main() before save_data is reached.
Handler(at, name) ==
    /\ pc = at
    /\ \E printed \in (IF stdoutOk THEN BOOLEAN ELSE {FALSE}) :
         IF printed
         THEN \E io \in SaveOutcomes(Len(JsonDump(expenses))) :
                /\ data_file' = save_data(data_file, expenses, io)
                /\ last' = [op |-> name, exc |-> "", save |-> io.kind]
                /\ pc' = "exited"
                /\ flushed' = TRUE
         ELSE /\ data_file' = data_file
              /\ last' = [op |-> name,
                          exc |-> (IF stdoutOk THEN "KeyboardInterrupt" ELSE "OSError"),
                          save |-> "none"]
              /\ pc' = "crashed"
              /\ flushed' = flushed
    /\ UNCHANGED <<expenses, categories, HAS_MATPLOTLIB, stdoutOk>>

\* except KeyboardInterrupt
HandleKeyboardInterrupt == Handler("except_kbd", "except_kbd")

\* except Exception
HandleException == Handler("except_exc", "except_exc")

Next ==
    \/ ExpenseTracker
    \/ add_expense
    \/ view_expenses
    \/ calculate_totals
    \/ show_category_breakdown
    \/ export_csv
    \/ plot_chart
    \/ ExitOption
    \/ InvalidOption
    \/ MenuInputRaises
    \/ MenuPrintFails
    \/ HandleKeyboardInterrupt
    \/ HandleException

Spec == Init /\ [][Next]_vars

----------------------------------------------------------------------------
(* The vocabulary of the properties *)

\* s is a YYYY-MM-DD date of the calendar
IsIsoDate(s) ==
    /\ Len(s) = 10
    /\ s[5] = "-" /\ s[8] = "-"
    /\ \A i \in {1, 2, 3, 4, 6, 7, 9, 10} : IsDigit(s[i])
    /\ IsCalendarDate(DigitsToInt(SubSeq(s, 1, 4)), DigitsToInt(SubSeq(s, 6, 7)),
                      DigitsToInt(SubSeq(s, 9, 10)))

\* the day number of an ISO date, for calendar order
DayNumber(s) ==
    DigitsToInt(SubSeq(s, 1, 4)) * 10000 + DigitsToInt(SubSeq(s, 6, 7)) * 100
    + DigitsToInt(SubSeq(s, 9, 10))

IsPositiveAmount(v) == v.ty = "float" /\ v.f \in {"fin", "inf"} /\ (v.f = "fin" => v.n > 0)

HasStr(e, k) == e.ty = "dict" /\ HasKey(e, k) /\ DictGet(e, k).ty = "str"

\* amount > 0, a non-empty category, a valid date
ValidRecord(e) ==
    /\ e.ty = "dict"
    /\ HasKey(e, KAmount) /\ IsNumber(DictGet(e, KAmount))
    /\ ~FloatLeZero(DictGet(e, KAmount))
    /\ ~(DictGet(e, KAmount).ty = "float" /\ DictGet(e, KAmount).f = "nan")
    /\ HasStr(e, KCategory) /\ Len(DictGet(e, KCategory).s) > 0
    /\ HasStr(e, KDate) /\ IsIsoDate(DictGet(e, KDate).s)

\* the records dated from start to end in calendar order
CalendarRange(items, start, end) ==
    LET Keep(e) ==
            /\ HasStr(e, KDate)
            /\ IsIsoDate(DictGet(e, KDate).s)
            /\ DayNumber(start) <= DayNumber(DictGet(e, KDate).s)
            /\ DayNumber(DictGet(e, KDate).s) <= DayNumber(end)
    IN  SelectSeq(items, Keep)

IsPrefix(s, t) == Len(s) <= Len(t) /\ SubSeq(t, 1, Len(s)) = s

NoDuplicates(s) == \A i, j \in 1..Len(s) : s[i] = s[j] => i = j

SaveFailed(l) ==
    l.op \in {"add", "exit", "except_kbd", "except_exc"}
    /\ l.save \in {"open_fail", "write_fail"}

ReadOnlyOps == {"view", "totals", "breakdown", "export", "plot"}

----------------------------------------------------------------------------
(* The properties *)

\* C1: when add_expense has appended a valid record r and its save_data
\* succeeded, load_data of the file yields a list equal to self.expenses,
\* whose last record is r in every field. Equality is of the values field by
\* field: an earlier record's NaN amount is read back as NaN.
C1_RoundTrip ==
    (last.op = "add" /\ last.appended /\ last.save = "ok" /\ ValidRecord(last.record))
    => LET r == load_data(data_file, PyList(<<>>))
       IN  /\ r.exc = "" /\ r.msg = "loaded"
           /\ r.expenses = expenses
           /\ r.expenses.items[Len(r.expenses.items)] = last.record

\* a valid record was appended to a list that held one already, and saved
C1_Witness ==
    /\ last.op = "add" /\ last.appended /\ last.save = "ok"
    /\ ValidRecord(last.record)
    /\ Len(expenses.items) >= 2
    /\ DictGet(last.record, KAmount) = PyFloat(1250)

\* C2: a save_data that fails leaves the file as it was before the attempt
\* and self.expenses as it was (with the record just appended, in
\* add_expense), and the process goes on.
C2_FailedSaveKeepsFile ==
    [][SaveFailed(last')
       => /\ data_file' = data_file
          /\ expenses' = (IF last'.op = "add" THEN ListAppend(expenses, last'.record)
                          ELSE expenses)
          /\ pc' # "crashed"]_vars

\* C3: load_data never raises; a missing file gives the empty list and the
\* seed categories; a file that is no list of records is reported and gives
\* the empty list.
C3_LoadNeverRaises ==
    last.op = "init"
    => /\ pc = "menu"
       /\ ~data_file.exists => (expenses = PyList(<<>>) /\ categories = SeedCategories)
       /\ (data_file.exists
           /\ ~(/\ data_file.readable
                /\ JsonLoad(data_file.toks).ok
                /\ JsonLoad(data_file.toks).v.ty = "list"
                /\ \A i \in 1..Len(JsonLoad(data_file.toks).v.items) :
                      JsonLoad(data_file.toks).v.items[i].ty = "dict"))
          => (last.msg = "could_not_load" /\ expenses = PyList(<<>>))

\* C4: every record of self.expenses, loaded or appended, has amount > 0, a
\* non-empty category and a valid YYYY-MM-DD date.
C4_RecordsValid ==
    (pc # "start" /\ expenses.ty = "list")
    => \A i \in 1..Len(expenses.items) : ValidRecord(expenses.items[i])

\* C5: after the initial load the list before a step is a prefix of the list
\* after it; only add_expense changes it, by one record at the end; the
\* views, totals, breakdown, export and chart leave it as it is.
C5_AppendOnly ==
    [][pc # "start"
       => /\ expenses.ty = expenses'.ty
          /\ expenses.ty = "list" => IsPrefix(expenses.items, expenses'.items)
          /\ expenses' # expenses
             => (/\ last'.op = "add"
                 /\ Len(expenses'.items) = Len(expenses.items) + 1
                 /\ expenses'.items[Len(expenses'.items)] = last'.record)
          /\ last'.op \in ReadOnlyOps => expenses' = expenses]_vars

\* the table of a view shows, in another order, a list that add_expense grew
C5_Witness ==
    /\ last.op = "view" /\ last.exc = ""
    /\ expenses.ty = "list"
    /\ Len(expenses.items) >= 2
    /\ Len(last.table) = Len(expenses.items)
    /\ last.table # expenses.items

\* C6: an add_expense with a category not in self.categories appends it, one
\* with a category already there leaves the list; so the list never holds a
\* name twice and begins with the seven seed categories.
C6_CategorySet ==
    [][pc # "start"
       => /\ \/ categories' = categories
             \/ /\ last'.op = "add"
                /\ \E c \in Range(categories') \ Range(categories) :
                      categories' = Append(categories, c)
          /\ (last'.op = "add" /\ last'.appended)
             => categories' = (IF DictGet(last'.record, KCategory).s \in Range(categories)
                               THEN categories
                               ELSE Append(categories, DictGet(last'.record, KCategory).s))
          /\ NoDuplicates(categories')
          /\ IsPrefix(SeedCategories, categories')]_vars

\* a custom category was added by one add_expense and given again to the next
C6_Witness ==
    /\ last.op = "add" /\ last.appended
    /\ Len(expenses.items) >= 2
    /\ Len(categories) = Len(SeedCategories) + 1
    /\ DictGet(last.record, KCategory).s = categories[Len(categories)]
    /\ DictGet(expenses.items[Len(expenses.items) - 1], KCategory).s
         = categories[Len(categories)]

\* C7: when the program has ended after the ledger was constructed (Exit, an
\* interrupt, an exception), a save_data attempt of self.expenses was made
\* after the last change of self.expenses.
C7_SaveBeforeEnd ==
    (pc \in {"exited", "crashed"} /\ last.op # "init") => flushed

\* C8: add_expense appends a record only with values the user supplied and
\* that are valid: an amount that is a positive number, and, when a date was
\* typed, that date, which is a valid YYYY-MM-DD date.
C8_OnlyValidInput ==
    (last.op = "add" /\ last.appended)
    => /\ IsPositiveAmount(DictGet(last.record, KAmount))
       /\ Len(StrStrip(last.inp.date.s)) > 0
          => (/\ IsIsoDate(StrStrip(last.inp.date.s))
              /\ DictGet(last.record, KDate).s = StrStrip(last.inp.date.s))

\* C9: the date-range filter shows exactly the records with
\* start <= date <= end in calendar order; a malformed stored date is never
\* shown and never makes the filter show every record.
C9_DateRange ==
    (last.op = "view" /\ last.inp.choice = Line(<<"3">>) /\ last.inp.b.k = "line"
     /\ expenses.ty = "list")
    => /\ ~last.fallback
       /\ last.shown = CalendarRange(expenses.items, last.inp.a.s, last.inp.b.s)

\* C10: show_category_breakdown never fails on a list whose records have a
\* str category and a numeric amount: each group's total is the sum of the
\* amounts of the records of that category, and with a grand total of 0
\* every group is reported with 0%.
C10_Breakdown ==
    (last.op = "breakdown" /\ expenses.ty = "list"
     /\ \A i \in 1..Len(expenses.items) :
           HasStr(expenses.items[i], KCategory)
           /\ HasKey(expenses.items[i], KAmount)
           /\ IsNumber(DictGet(expenses.items[i], KAmount)))
    => /\ last.exc = ""
       /\ Len(last.groups) = Cardinality(CategoriesInData(expenses.items))
       /\ \A g \in 1..Len(last.groups) :
             last.groups[g].total
               = NumAdd(PyFloat(0),
                        SumAmounts(FilterByCategory(expenses.items, last.groups[g].cat)).total)
       /\ (IsFinite(last.total) /\ last.total.n = 0)
          => \A g \in 1..Len(last.pcts) : last.pcts[g] = PyFloat(0)

=============================================================================
